---------------------------- MODULE Spec2Model ----------------------------
(***************************************************************************)
(* State-machine model of the Dashboard component of myRoom                *)
(* (src/pages/Dashboard.tsx): the post composer (handleCreatePost), the    *)
(* resumable image upload (uploadImage, imageHandler), the live feed       *)
(* subscription (useEffect / onSnapshot) and deletion (handleDeletePost),  *)
(* together with the Firestore and Storage behaviour those calls rely on.  *)
(*                                                                         *)
(* React state is one variable per useState cell.  A state setter called   *)
(* after the component has unmounted is dropped by React, so every setter  *)
(* is modelled through Set(old, new).  An async handler is split at its    *)
(* awaits: one action per continuation.                                    *)
(***************************************************************************)
EXTENDS Integers, Sequences, FiniteSets, TLC

(* ------------------------------ bounds -------------------------------- *)

\* operations started in one run: submit gestures, inline-image picks,
\* delete requests and inserts by other clients, in any mix
MaxOps == 2

(* ------------------------------ inputs -------------------------------- *)

NULL == "null"

\* the signed-in identity delivered by useAuth(): a uid, or NULL
Users == {"u1"}
OtherAuthors == {"u2"}

Email(u) == IF u = "u1" THEN "u1@example.com" ELSE ""

\* files the user can pick, with their size in bytes
Files == {"pic.png"}
TotalBytes(f) == 2

\* what the user can type into the title field (a sequence of characters)
TitleInputs == {<<>>, <<" ">>, <<" ", "a", " ">>}


\* what the editor can hold after the user edits it: the serialized markup
\* as a sequence of tokens; <<>> is the empty string '' of useState('')
EmptyDoc == <<"<p>", "<br>", "</p>">>
ContentInputs == {EmptyDoc, <<"<p>", "H", "</p>">>}

\* error codes of the backends: Firestore's, and Storage's (storage/...)
FirestoreErrors == {"permission-denied", "unavailable"}
StorageErrors == {"storage/unauthorized"}

ReadDenied == "Access Denied: Check your Firestore rules."
WriteDenied == "Write Denied: Check Firestore and Storage rules."
SaveFailed == "Failed to save post. Please try again."
InlineFailed == "Failed to upload image to editor."
DeleteFailed == "Permission Denied: You can only delete your own posts."
NoUserError == "No user authenticated"

(* --------------------------- pure functions --------------------------- *)

IsSpace(ch) == ch = " "

RECURSIVE TrimLeft(_)
TrimLeft(t) ==
    IF t # <<>> /\ IsSpace(Head(t)) THEN TrimLeft(Tail(t)) ELSE t

RECURSIVE TrimRight(_)
TrimRight(t) ==
    IF t # <<>> /\ IsSpace(t[Len(t)])
    THEN TrimRight(SubSeq(t, 1, Len(t) - 1))
    ELSE t

\* a mutant of Trim: the title is used as typed
TrimNot(t) == t

\* String.prototype.trim() of title.trim()
Trim(t) == TrimRight(TrimLeft(t))

\* a mutant of IsContentEmpty: the editor's empty document is not recognised
IsContentEmptyNoDoc(c) == c = <<>>

\* isContentEmpty = !content || content === '<p><br></p>'
IsContentEmpty(c) == c = <<>> \/ c = EmptyDoc

\* the document the editor holds for a serialized content
EditorDoc(c) ==
    IF IsContentEmpty(c) THEN <<>> ELSE SubSeq(c, 2, Len(c) - 1)

Html(doc) ==
    IF doc = <<>> THEN EmptyDoc ELSE <<"<p>">> \o doc \o <<"</p>">>

ImgTag(url) == "<img src=" \o url \o ">"

\* quill.insertEmbed(range?.index || 0, 'image', url), then the editor's
\* onChange serializes the document into content.  range is <<>> for a
\* null selection and <<i>> for a cursor at index i.
InsertEmbed(c, range, url) ==
    LET doc == EditorDoc(c)
        at == IF range = <<>> THEN 0 ELSE range[1]
        i == IF at > Len(doc) THEN Len(doc) ELSE at
    IN  Html(SubSeq(doc, 1, i) \o <<ImgTag(url)>> \o SubSeq(doc, i + 1, Len(doc)))

\* ref(storage, `posts/${user.uid}/${Date.now()}_${file.name}`)
StoragePath(u, f) == "posts/" \o u \o "/" \o f

\* getDownloadURL(uploadTask.snapshot.ref)
DownloadURL(path) == "https://storage/" \o path

\* progress = (snapshot.bytesTransferred / snapshot.totalBytes) * 100
Progress(bt, total) == (bt * 100) \div total

\* a mutant of NewPost: the title is stored untrimmed
NewPostRawTitle(t, c, img, u) ==
    [title |-> t, content |-> c, imageUrl |-> img,
     authorId |-> u, authorEmail |-> IF Email(u) = "" THEN "Anonymous" ELSE Email(u),
     createdAt |-> <<>>]

\* a mutant of NewPost: the cover URL is not stored
NewPostNoImage(t, c, img, u) ==
    [title |-> Trim(t), content |-> c, imageUrl |-> "",
     authorId |-> u, authorEmail |-> IF Email(u) = "" THEN "Anonymous" ELSE Email(u),
     createdAt |-> <<>>]

\* the record handed to addDoc; createdAt: serverTimestamp() is the
\* placeholder <<>> that the server replaces by <<t>> at commit
NewPost(t, c, img, u) ==
    [title |-> Trim(t), content |-> c, imageUrl |-> img,
     authorId |-> u, authorEmail |-> IF Email(u) = "" THEN "Anonymous" ELSE Email(u),
     createdAt |-> <<>>]


(* ------------------------------- state -------------------------------- *)

VARIABLES
    phase,              \* "init" | "mounted" | "unmounted"
    user,               \* useAuth().user: a uid or NULL
    posts,              \* useState<Post[]>([])
    title,              \* useState('')
    content,            \* useState('')
    featuredImage,      \* useState<File | null>(null)
    imagePreview,       \* useState<string | null>(null)
    isSubmitting,       \* useState(false)
    uploadProgress,     \* useState(0)
    isInitialLoading,   \* useState(true)
    permissionError,    \* useState<string | null>(null)
    queries,            \* standing queries the backend holds for this client
    handle,             \* the query the effect's unsubscribe closes over
    subscribeCount,     \* calls of onSnapshot
    unsubscribeCount,   \* calls of unsubscribe
    feedFailure,        \* the error.code the listener's error callback received, or NULL
    feedDirty,          \* the listener's result set changed since its last delivery
    serverDocs,         \* the posts collection as committed by the server
    pendingAdds,        \* this client's addDoc writes the server has not answered
    clock,              \* the server's clock
    nextId,             \* document ids handed out so far
    subs,               \* one record per submit gesture
    inl,                \* one record per inline-image pick
    dels,               \* one record per delete request
    remotes             \* inserts by other clients so far

uiVars == <<user, posts, title, content, featuredImage, imagePreview, isSubmitting,
            uploadProgress, isInitialLoading, permissionError>>
draftVars == <<title, content, featuredImage, imagePreview>>
feedVars == <<queries, handle, subscribeCount, unsubscribeCount, feedFailure>>
storeVars == <<serverDocs, pendingAdds, clock, nextId>>
vars == <<phase, uiVars, feedVars, feedDirty, storeVars, subs, inl, dels, remotes>>

OpsStarted == Len(subs) + Len(inl) + Len(dels) + remotes

\* a React state setter: dropped once the component has unmounted
Set(old, new) == IF phase = "mounted" THEN new ELSE old

(* ----------------------- the document store --------------------------- *)

Ids(S) == {d.id : d \in S}
Range(f) == {f[i] : i \in DOMAIN f}

\* what this client sees of the collection: the server's documents with
\* its own unanswered writes applied (latency compensation)
PendingDeletes == {dels[k].id : k \in {j \in DOMAIN dels : dels[j].pc = "pending"}}

LocalView ==
    {d \in serverDocs \cup Range(pendingAdds) : d.id \notin PendingDeletes}

IsPending(d) == d.createdAt = <<>>

\* a mutant of Newer: the query has no orderBy and orders by document id
NewerById(a, b) == a.id < b.id

\* a comes before b under orderBy('createdAt', 'desc'): a pending server
\* timestamp is later than every committed one; ties fall back to the id
Newer(a, b) ==
    \/ IsPending(a) /\ ~IsPending(b)
    \/ IsPending(a) /\ IsPending(b) /\ a.id > b.id
    \/ /\ ~IsPending(a) /\ ~IsPending(b)
       /\ \/ a.createdAt[1] > b.createdAt[1]
          \/ a.createdAt[1] = b.createdAt[1] /\ a.id > b.id

RECURSIVE Sorted(_)
Sorted(S) ==
    IF S = {} THEN <<>>
    ELSE LET first == CHOOSE d \in S : \A e \in S \ {d} : Newer(d, e)
         IN  <<first>> \o Sorted(S \ {first})

\* query(postsRef, orderBy('createdAt', 'desc')) evaluated on the local
\* view, mapped to { id: doc.id, ...doc.data() }
FeedSnapshot == Sorted(LocalView)

\* a mutant of RemoveDoc: the delete takes the author's other posts along
RemoveDocAndSiblings(S, id) ==
    {d \in S : d.id # id /\ \A e \in S : e.id = id => d.authorId # e.authorId}

\* deleteDoc(doc(db, 'posts', postId)) applied to a set of documents
RemoveDoc(S, id) == {d \in S : d.id # id}

(* ---------------------------- construction ---------------------------- *)

\* a document as another client's addDoc left it on the server
StoredPost(id, author, t) ==
    [id |-> id] @@ [NewPost(<<"r">>, <<"<p>", "H", "</p>">>, "", author)
                    EXCEPT !.createdAt = <<t>>]

\* what the collection can hold when the view mounts: nothing, or a post the
\* user wrote earlier
InitialCollections == {{}, {StoredPost(1, "u1", 1)}}


\* the state after the first render, over a collection drawn from C
InitOver(C) ==
    /\ phase = "init"
    /\ user \in Users \cup {NULL}
    /\ posts = <<>>
    /\ title = <<>>
    /\ content = <<>>
    /\ featuredImage = NULL
    /\ imagePreview = NULL
    /\ isSubmitting = FALSE
    /\ uploadProgress = 0
    /\ isInitialLoading = TRUE
    /\ permissionError = NULL
    /\ queries = {}
    /\ handle = 0
    /\ subscribeCount = 0
    /\ unsubscribeCount = 0
    /\ feedFailure = NULL
    /\ feedDirty = FALSE
    /\ serverDocs \in C
    /\ pendingAdds = <<>>
    /\ clock = Cardinality(serverDocs)
    /\ nextId = Cardinality(serverDocs)
    /\ subs = <<>>
    /\ inl = <<>>
    /\ dels = <<>>
    /\ remotes = 0

(* ------------------------ the feed subscription ----------------------- *)

\* a mutant of FeedEffectDeps: the effect depends on the identity
FeedEffectDepsUser == <<user>>

\* the dependency array of the subscription effect: []
FeedEffectDeps == <<>>

\* the effect body: setPermissionError(null); onSnapshot(q, ...)
Subscribe(qs) ==
    /\ queries' = qs \cup {subscribeCount + 1}
    /\ handle' = subscribeCount + 1
    /\ subscribeCount' = subscribeCount + 1
    /\ feedFailure' = NULL
    /\ feedDirty' = TRUE

\* the first run of the effect, after the first render
Mount ==
    /\ phase = "init"
    /\ phase' = "mounted"
    /\ Subscribe(queries)
    /\ UNCHANGED <<unsubscribeCount, uiVars, storeVars, subs, inl, dels, remotes>>

\* the component's state cells are discarded with the component
StateDiscarded ==
    /\ posts' = <<>>
    /\ title' = <<>>
    /\ content' = <<>>
    /\ featuredImage' = NULL
    /\ imagePreview' = NULL
    /\ isSubmitting' = FALSE
    /\ uploadProgress' = 0
    /\ isInitialLoading' = TRUE
    /\ permissionError' = NULL

\* a mutant of Unmount: the effect returns no cleanup
UnmountNoCleanup ==
    /\ phase = "mounted"
    /\ phase' = "unmounted"
    /\ StateDiscarded
    /\ UNCHANGED <<user, feedVars, feedDirty, storeVars, subs, inl, dels, remotes>>

\* the view unmounts: the effect's cleanup, return () => unsubscribe(), runs
Unmount ==
    /\ phase = "mounted"
    /\ phase' = "unmounted"
    /\ queries' = queries \ {handle}
    /\ unsubscribeCount' = unsubscribeCount + 1
    /\ feedFailure' = NULL
    /\ StateDiscarded
    /\ UNCHANGED <<user, handle, subscribeCount, feedDirty, storeVars, subs, inl, dels, remotes>>

\* after a render React runs the effect again, cleanup first, when its
\* dependencies changed; with [] they never do.  pe is the permissionError
\* the handler of this step leaves.
AfterRender(pe) ==
    IF phase = "mounted" /\ FeedEffectDeps' # FeedEffectDeps
    THEN /\ Subscribe(queries \ {handle})
         /\ unsubscribeCount' = unsubscribeCount + 1
         /\ permissionError' = NULL
    ELSE /\ permissionError' = pe
         /\ UNCHANGED feedVars

\* a mutant of FeedDeliver: the query is read once (getDocs) and not listened to
FeedDeliverOnce ==
    /\ handle \in queries
    /\ feedDirty
    /\ isInitialLoading
    /\ feedDirty' = FALSE
    /\ posts' = Set(posts, FeedSnapshot)
    /\ isInitialLoading' = Set(isInitialLoading, FALSE)
    /\ UNCHANGED <<phase, user, draftVars, isSubmitting, uploadProgress, permissionError,
                   feedVars, storeVars, subs, inl, dels, remotes>>

\* the onSnapshot success callback
FeedDeliver ==
    /\ handle \in queries
    /\ feedDirty
    /\ feedDirty' = FALSE
    /\ posts' = Set(posts, FeedSnapshot)
    /\ isInitialLoading' = Set(isInitialLoading, FALSE)
    /\ UNCHANGED <<phase, user, draftVars, isSubmitting, uploadProgress, permissionError,
                   feedVars, storeVars, subs, inl, dels, remotes>>

\* a mutant of FeedError: the error callback sets no message
FeedErrorSilent(code) ==
    /\ handle \in queries
    /\ queries' = queries \ {handle}
    /\ feedFailure' = code
    /\ isInitialLoading' = Set(isInitialLoading, FALSE)
    /\ UNCHANGED <<phase, user, posts, draftVars, isSubmitting, uploadProgress, permissionError,
                   handle, subscribeCount, unsubscribeCount, feedDirty,
                   storeVars, subs, inl, dels, remotes>>

\* the onSnapshot error callback; the backend ends the query
FeedError(code) ==
    /\ handle \in queries
    /\ queries' = queries \ {handle}
    /\ feedFailure' = code
    /\ permissionError' =
           IF code = "permission-denied" THEN Set(permissionError, ReadDenied)
           ELSE permissionError
    /\ isInitialLoading' = Set(isInitialLoading, FALSE)
    /\ UNCHANGED <<phase, user, posts, draftVars, isSubmitting, uploadProgress,
                   handle, subscribeCount, unsubscribeCount, feedDirty,
                   storeVars, subs, inl, dels, remotes>>


(* ----------------------------- the draft ------------------------------ *)

\* useAuth() delivers another identity (sign-in, sign-out)
SetUser(u) ==
    /\ phase = "mounted"
    /\ u # user
    /\ user' = u
    /\ UNCHANGED <<phase, posts, draftVars, isSubmitting, uploadProgress, isInitialLoading,
                   feedDirty, storeVars, subs, inl, dels, remotes>>
    /\ AfterRender(permissionError)

\* onChange={(e) => setTitle(e.target.value)}
SetTitle(t) ==
    /\ phase = "mounted"
    /\ t # title
    /\ title' = t
    /\ UNCHANGED <<phase, user, posts, content, featuredImage, imagePreview, isSubmitting,
                   uploadProgress, isInitialLoading, feedDirty,
                   storeVars, subs, inl, dels, remotes>>
    /\ AfterRender(permissionError)

\* <ReactQuill onChange={setContent}> on a user edit
SetContent(c) ==
    /\ phase = "mounted"
    /\ c # content
    /\ content' = c
    /\ UNCHANGED <<phase, user, posts, title, featuredImage, imagePreview, isSubmitting,
                   uploadProgress, isInitialLoading, feedDirty,
                   storeVars, subs, inl, dels, remotes>>
    /\ AfterRender(permissionError)

\* handleFeaturedImageChange with a file, and the FileReader's onloadend that
\* follows it; the file input is rendered while there is no preview
PickCover(f) ==
    /\ phase = "mounted"
    /\ imagePreview = NULL
    /\ featuredImage' = f
    /\ imagePreview' = "data:" \o f
    /\ UNCHANGED <<phase, user, posts, title, content, isSubmitting,
                   uploadProgress, isInitialLoading, feedDirty,
                   storeVars, subs, inl, dels, remotes>>
    /\ AfterRender(permissionError)

\* the preview's remove button
ClearCover ==
    /\ phase = "mounted"
    /\ imagePreview # NULL
    /\ featuredImage' = NULL
    /\ imagePreview' = NULL
    /\ UNCHANGED <<phase, user, posts, title, content, isSubmitting,
                   uploadProgress, isInitialLoading, feedDirty,
                   storeVars, subs, inl, dels, remotes>>
    /\ AfterRender(permissionError)


(* --------------------------- handleCreatePost ------------------------- *)

\* One record per submit gesture.  title, content, file and user are the
\* values of the render whose handler runs (its closure); they are dropped
\* when the handler returns.  uploads and adds count the uploadImage and
\* addDoc calls the gesture issued; alert is the message it alerted.
NoSubmission ==
    [pc |-> "rejected", title |-> <<>>, content |-> <<>>, file |-> NULL, user |-> NULL,
     bt |-> 0, uploads |-> 0, adds |-> 0, docId |-> 0, err |-> NULL, alert |-> NULL]

Returned(rec, pc, err, alert) ==
    [rec EXCEPT !.pc = pc, !.title = <<>>, !.content = <<>>, !.user = NULL, !.bt = 0,
                !.err = err, !.alert = alert]

InFlight(s) == subs[s].pc \in {"uploading", "gettingURL", "adding", "hung"}

\* a mutant of SubmitDisabled: the button ignores isSubmitting
SubmitDisabledNoFlag ==
    Trim(title) = <<>> \/ IsContentEmpty(content)

\* disabled={isSubmitting || !title.trim() || !content || content === '<p><br></p>'}
SubmitDisabled ==
    isSubmitting \/ Trim(title) = <<>> \/ IsContentEmpty(content)

\* if (!title.trim() || isContentEmpty || !user) return;
CreateGuardFails ==
    Trim(title) = <<>> \/ IsContentEmpty(content) \/ user = NULL

\* addDoc(collection(db, 'posts'), {...}) issued by submission rec with the
\* cover URL img: the write is applied to the local view at once
AddDocCall(rec, img) ==
    /\ pendingAdds' = Append(pendingAdds,
           [id |-> nextId + 1] @@ NewPost(rec.title, rec.content, img, rec.user))
    /\ nextId' = nextId + 1
    /\ feedDirty' = TRUE

Adding(rec) ==
    [rec EXCEPT !.pc = "adding", !.adds = @ + 1, !.docId = nextId + 1]

\* the catch of handleCreatePost: the access message for 'permission-denied',
\* an alert for everything else
CreateAlert(code) == IF code = "permission-denied" THEN NULL ELSE SaveFailed
CreateDenied(code) ==
    IF code = "permission-denied" THEN Set(permissionError, WriteDenied) ELSE permissionError

\* the submit gesture: the button's disabled attribute, then handleCreatePost
\* up to its first await
SubmitForm ==
    /\ phase = "mounted"
    /\ OpsStarted < MaxOps
    /\ IF SubmitDisabled \/ CreateGuardFails
       THEN /\ subs' = Append(subs, NoSubmission)
            /\ UNCHANGED <<isSubmitting, feedDirty, storeVars>>
            /\ AfterRender(permissionError)
       ELSE LET rec == [NoSubmission EXCEPT !.title = title, !.content = content,
                                            !.file = featuredImage, !.user = user]
            IN  /\ isSubmitting' = TRUE
                /\ IF featuredImage # NULL
                   THEN /\ subs' = Append(subs, [rec EXCEPT !.pc = "uploading", !.uploads = 1])
                        /\ UNCHANGED <<feedDirty, storeVars>>
                   ELSE /\ subs' = Append(subs, Adding(rec))
                        /\ AddDocCall(rec, "")
                        /\ UNCHANGED <<serverDocs, clock>>
                /\ AfterRender(NULL)
    /\ UNCHANGED <<phase, user, posts, draftVars, uploadProgress, isInitialLoading,
                   inl, dels, remotes>>

\* the cover task's 'state_changed' observer: setUploadProgress(progress)
CoverProgress(s, b) ==
    /\ subs[s].pc = "uploading"
    /\ b >= subs[s].bt
    /\ b <= TotalBytes(subs[s].file)
    /\ subs' = [subs EXCEPT ![s].bt = b]
    /\ uploadProgress' = Set(uploadProgress, Progress(b, TotalBytes(subs[s].file)))
    /\ UNCHANGED <<phase, user, posts, draftVars, isSubmitting, isInitialLoading,
                   feedDirty, storeVars, inl, dels, remotes>>
    /\ AfterRender(permissionError)

\* a mutant of CoverError: the failed upload is swallowed and the post is
\* written without its image
CoverErrorSwallowed(s, code) ==
    /\ subs[s].pc = "uploading"
    /\ subs' = [subs EXCEPT ![s] = Adding([@ EXCEPT !.err = code])]
    /\ AddDocCall(subs[s], "")
    /\ UNCHANGED <<phase, uiVars, feedVars, serverDocs, clock, inl, dels, remotes>>

\* the cover task fails: reject(error), then handleCreatePost's catch and finally
CoverError(s, code) ==
    /\ subs[s].pc = "uploading"
    /\ subs' = [subs EXCEPT ![s] = Returned(@, "failed", code, CreateAlert(code))]
    /\ isSubmitting' = Set(isSubmitting, FALSE)
    /\ UNCHANGED <<phase, user, posts, draftVars, uploadProgress, isInitialLoading,
                   feedDirty, storeVars, inl, dels, remotes>>
    /\ AfterRender(CreateDenied(code))

\* the transfer is complete: the completion observer calls getDownloadURL
CoverComplete(s) ==
    /\ subs[s].pc = "uploading"
    /\ subs[s].bt = TotalBytes(subs[s].file)
    /\ subs' = [subs EXCEPT ![s].pc = "gettingURL"]
    /\ UNCHANGED <<phase, uiVars, feedVars, feedDirty, storeVars, inl, dels, remotes>>

\* a mutant of CoverURL: addDoc is issued without the resolved URL
CoverURLDropped(s) ==
    /\ subs[s].pc = "gettingURL"
    /\ subs' = [subs EXCEPT ![s] = Adding(@)]
    /\ AddDocCall(subs[s], "")
    /\ UNCHANGED <<phase, uiVars, feedVars, serverDocs, clock, inl, dels, remotes>>

\* getDownloadURL resolves: resolve(downloadURL), and handleCreatePost goes on
\* to addDoc with the title, content and user of the render that submitted
CoverURL(s) ==
    /\ subs[s].pc = "gettingURL"
    /\ subs' = [subs EXCEPT ![s] = Adding(@)]
    /\ AddDocCall(subs[s], DownloadURL(StoragePath(subs[s].user, subs[s].file)))
    /\ UNCHANGED <<phase, uiVars, feedVars, serverDocs, clock, inl, dels, remotes>>

\* a mutant of CoverURLFail: the completion observer catches and rejects
CoverURLFailRejects(s, code) ==
    /\ subs[s].pc = "gettingURL"
    /\ subs' = [subs EXCEPT ![s] = Returned(@, "failed", code, CreateAlert(code))]
    /\ isSubmitting' = Set(isSubmitting, FALSE)
    /\ UNCHANGED <<phase, user, posts, draftVars, uploadProgress, isInitialLoading,
                   feedDirty, storeVars, inl, dels, remotes>>
    /\ AfterRender(CreateDenied(code))

\* getDownloadURL rejects inside the async completion observer: neither
\* resolve nor reject is called, so the promise of uploadImage never settles
\* and handleCreatePost never resumes
CoverURLFail(s, code) ==
    /\ subs[s].pc = "gettingURL"
    /\ subs' = [subs EXCEPT ![s].pc = "hung", ![s].err = code]
    /\ UNCHANGED <<phase, uiVars, feedVars, feedDirty, storeVars, inl, dels, remotes>>

WithoutDoc(q, id) == SelectSeq(q, LAMBDA d : d.id # id)
PendingDoc(id) == CHOOSE d \in Range(pendingAdds) : d.id = id

\* the server commits the write with its own timestamp: addDoc resolves, the
\* draft is reset, and finally setIsSubmitting(false)
AddDocAck(s, t) ==
    /\ subs[s].pc = "adding"
    /\ t \in {clock, clock + 1} /\ t >= 1
    /\ serverDocs' = serverDocs \cup {[PendingDoc(subs[s].docId) EXCEPT !.createdAt = <<t>>]}
    /\ pendingAdds' = WithoutDoc(pendingAdds, subs[s].docId)
    /\ clock' = t
    /\ feedDirty' = TRUE
    /\ subs' = [subs EXCEPT ![s] = Returned(@, "created", NULL, NULL)]
    /\ title' = Set(title, <<>>)
    /\ content' = Set(content, <<>>)
    /\ featuredImage' = Set(featuredImage, NULL)
    /\ imagePreview' = Set(imagePreview, NULL)
    /\ uploadProgress' = Set(uploadProgress, 0)
    /\ isSubmitting' = Set(isSubmitting, FALSE)
    /\ UNCHANGED <<phase, user, posts, isInitialLoading, nextId, inl, dels, remotes>>
    /\ AfterRender(permissionError)

\* a mutant of AddDocReject: the draft is reset whether or not the write succeeded
AddDocRejectResets(s, code) ==
    /\ subs[s].pc = "adding"
    /\ pendingAdds' = WithoutDoc(pendingAdds, subs[s].docId)
    /\ feedDirty' = TRUE
    /\ subs' = [subs EXCEPT ![s] = Returned(@, "failed", code, CreateAlert(code))]
    /\ title' = Set(title, <<>>)
    /\ content' = Set(content, <<>>)
    /\ featuredImage' = Set(featuredImage, NULL)
    /\ imagePreview' = Set(imagePreview, NULL)
    /\ uploadProgress' = Set(uploadProgress, 0)
    /\ isSubmitting' = Set(isSubmitting, FALSE)
    /\ UNCHANGED <<phase, user, posts, isInitialLoading,
                   serverDocs, clock, nextId, inl, dels, remotes>>
    /\ AfterRender(CreateDenied(code))

\* the server refuses the write: the local write is reverted, addDoc rejects,
\* then the catch and finally
AddDocReject(s, code) ==
    /\ subs[s].pc = "adding"
    /\ pendingAdds' = WithoutDoc(pendingAdds, subs[s].docId)
    /\ feedDirty' = TRUE
    /\ subs' = [subs EXCEPT ![s] = Returned(@, "failed", code, CreateAlert(code))]
    /\ isSubmitting' = Set(isSubmitting, FALSE)
    /\ UNCHANGED <<phase, user, posts, draftVars, uploadProgress, isInitialLoading,
                   serverDocs, clock, nextId, inl, dels, remotes>>
    /\ AfterRender(CreateDenied(code))

(* ----------------------------- imageHandler --------------------------- *)

\* a mutant of PickInline: uploadImage does not test the user
PickInlineNoUserCheck(f) ==
    /\ phase = "mounted"
    /\ OpsStarted < MaxOps
    /\ inl' = Append(inl,
           [pc |-> "uploading", file |-> f, user |-> user, bt |-> 0, uploads |-> 1,
            err |-> NULL, alert |-> NULL])
    /\ UNCHANGED <<phase, uiVars, feedVars, feedDirty, storeVars, subs, dels, remotes>>

\* input.onchange with a file: uploadImage(file) rejects at once when there
\* is no user (the catch alerts), else it starts a transfer
PickInline(f) ==
    /\ phase = "mounted"
    /\ OpsStarted < MaxOps
    /\ inl' = Append(inl,
           IF user = NULL
           THEN [pc |-> "failed", file |-> f, user |-> NULL, bt |-> 0, uploads |-> 0,
                 err |-> NoUserError, alert |-> InlineFailed]
           ELSE [pc |-> "uploading", file |-> f, user |-> user, bt |-> 0, uploads |-> 1,
                 err |-> NULL, alert |-> NULL])
    /\ UNCHANGED <<phase, uiVars, feedVars, feedDirty, storeVars, subs, dels, remotes>>

InlineProgress(k, b) ==
    /\ inl[k].pc = "uploading"
    /\ b >= inl[k].bt
    /\ b <= TotalBytes(inl[k].file)
    /\ inl' = [inl EXCEPT ![k].bt = b]
    /\ uploadProgress' = Set(uploadProgress, Progress(b, TotalBytes(inl[k].file)))
    /\ UNCHANGED <<phase, user, posts, draftVars, isSubmitting, isInitialLoading,
                   feedDirty, storeVars, subs, dels, remotes>>
    /\ AfterRender(permissionError)

\* the inline task fails: reject(error), then imageHandler's catch
InlineError(k, code) ==
    /\ inl[k].pc = "uploading"
    /\ inl' = [inl EXCEPT ![k].pc = "failed", ![k].bt = 0, ![k].err = code,
                          ![k].alert = InlineFailed]
    /\ UNCHANGED <<phase, uiVars, feedVars, feedDirty, storeVars, subs, dels, remotes>>

InlineComplete(k) ==
    /\ inl[k].pc = "uploading"
    /\ inl[k].bt = TotalBytes(inl[k].file)
    /\ inl' = [inl EXCEPT ![k].pc = "gettingURL"]
    /\ UNCHANGED <<phase, uiVars, feedVars, feedDirty, storeVars, subs, dels, remotes>>

\* quill.getSelection(): <<>> (null, the editor has no focus) or a cursor
Selections(c) == {<<>>} \cup {<<i>> : i \in 0..Len(EditorDoc(c))}

\* getDownloadURL resolves: the image is embedded at the cursor and the
\* progress is reset; quillRef.current is null once the view has unmounted
InlineURL(k, range) ==
    /\ inl[k].pc = "gettingURL"
    /\ IF phase = "mounted"
       THEN /\ range \in Selections(content)
            /\ inl' = [inl EXCEPT ![k].pc = "embedded", ![k].bt = 0]
            /\ content' = InsertEmbed(content, range,
                                      DownloadURL(StoragePath(inl[k].user, inl[k].file)))
            /\ uploadProgress' = 0
       ELSE /\ range = <<>>
            /\ inl' = [inl EXCEPT ![k].pc = "dropped", ![k].bt = 0]
            /\ UNCHANGED <<content, uploadProgress>>
    /\ UNCHANGED <<phase, user, posts, title, featuredImage, imagePreview, isSubmitting,
                   isInitialLoading, feedDirty, storeVars, subs, dels, remotes>>
    /\ AfterRender(permissionError)

\* getDownloadURL rejects: the promise of uploadImage never settles
InlineURLFail(k, code) ==
    /\ inl[k].pc = "gettingURL"
    /\ inl' = [inl EXCEPT ![k].pc = "hung", ![k].bt = 0, ![k].err = code]
    /\ UNCHANGED <<phase, uiVars, feedVars, feedDirty, storeVars, subs, dels, remotes>>

(* --------------------------- handleDeletePost ------------------------- *)

\* a mutant of DeleteRequest: deleteDoc is called whatever window.confirm answers
DeleteRequestNoConfirm(i, ok) ==
    /\ phase = "mounted"
    /\ OpsStarted < MaxOps
    /\ i \in DOMAIN posts
    /\ user # NULL /\ posts[i].authorId = user
    /\ dels' = Append(dels, [id |-> posts[i].id, ok |-> ok, pc |-> "pending",
                             calls |-> 1, err |-> NULL, alert |-> NULL])
    /\ feedDirty' = TRUE
    /\ UNCHANGED <<phase, uiVars, feedVars, storeVars, subs, inl, remotes>>

\* the delete button of posts[i], rendered when user?.uid === post.authorId;
\* window.confirm answers ok
DeleteRequest(i, ok) ==
    /\ phase = "mounted"
    /\ OpsStarted < MaxOps
    /\ i \in DOMAIN posts
    /\ user # NULL /\ posts[i].authorId = user
    /\ dels' = Append(dels, [id |-> posts[i].id, ok |-> ok,
                             pc |-> IF ok THEN "pending" ELSE "declined",
                             calls |-> IF ok THEN 1 ELSE 0, err |-> NULL, alert |-> NULL])
    /\ feedDirty' = (feedDirty \/ ok)
    /\ UNCHANGED <<phase, uiVars, feedVars, storeVars, subs, inl, remotes>>

\* the server accepts the delete; a write to a document follows this
\* client's earlier writes to it
DeleteAck(k) ==
    /\ dels[k].pc = "pending"
    /\ dels[k].id \notin Ids(Range(pendingAdds))
    /\ serverDocs' = RemoveDoc(serverDocs, dels[k].id)
    /\ dels' = [dels EXCEPT ![k].pc = "accepted"]
    /\ feedDirty' = TRUE
    /\ UNCHANGED <<phase, uiVars, feedVars, pendingAdds, clock, nextId, subs, inl, remotes>>

\* the server refuses the delete: the local delete is reverted and the catch alerts
DeleteReject(k, code) ==
    /\ dels[k].pc = "pending"
    /\ dels[k].id \notin Ids(Range(pendingAdds))
    /\ dels' = [dels EXCEPT ![k].pc = "rejected", ![k].err = code, ![k].alert = DeleteFailed]
    /\ feedDirty' = TRUE
    /\ UNCHANGED <<phase, uiVars, feedVars, storeVars, subs, inl, remotes>>

(* ---------------------------- other clients --------------------------- *)

RemoteInsert(author, t) ==
    /\ OpsStarted < MaxOps
    /\ remotes' = remotes + 1
    /\ t \in {clock, clock + 1} /\ t >= 1
    /\ serverDocs' = serverDocs \cup {StoredPost(nextId + 1, author, t)}
    /\ nextId' = nextId + 1
    /\ clock' = t
    /\ feedDirty' = TRUE
    /\ UNCHANGED <<phase, uiVars, feedVars, pendingAdds, subs, inl, dels>>

RemoteDelete(id) ==
    /\ id \in Ids(serverDocs)
    /\ serverDocs' = RemoveDoc(serverDocs, id)
    /\ feedDirty' = TRUE
    /\ UNCHANGED <<phase, uiVars, feedVars, pendingAdds, clock, nextId, subs, inl, dels, remotes>>

(* ---------------------------- specification --------------------------- *)

\* the view's life, the identity and the feed
ViewNext ==
    \/ Mount
    \/ Unmount
    \/ FeedDeliver
    \/ \E code \in FirestoreErrors : FeedError(code)
    \/ \E u \in Users \cup {NULL} : SetUser(u)

\* the draft's title and content, the submit gesture and the record write
WriteNext ==
    \/ \E t \in TitleInputs : SetTitle(t)
    \/ \E c \in ContentInputs : SetContent(c)
    \/ SubmitForm
    \/ \E s \in DOMAIN subs, t \in 1..(clock + 1) : AddDocAck(s, t)
    \/ \E s \in DOMAIN subs, code \in FirestoreErrors : AddDocReject(s, code)

\* the cover image and the inline images
UploadNext ==
    \/ \E f \in Files : PickCover(f)
    \/ ClearCover
    \/ \E s \in DOMAIN subs, b \in 0..2 : CoverProgress(s, b)
    \/ \E s \in DOMAIN subs, code \in StorageErrors : CoverError(s, code)
    \/ \E s \in DOMAIN subs : CoverComplete(s)
    \/ \E s \in DOMAIN subs : CoverURL(s)
    \/ \E s \in DOMAIN subs, code \in StorageErrors : CoverURLFail(s, code)
    \/ \E f \in Files : PickInline(f)
    \/ \E k \in DOMAIN inl, b \in 0..2 : InlineProgress(k, b)
    \/ \E k \in DOMAIN inl, code \in StorageErrors : InlineError(k, code)
    \/ \E k \in DOMAIN inl : InlineComplete(k)
    \/ \E k \in DOMAIN inl, r \in Selections(content) : InlineURL(k, r)
    \/ \E k \in DOMAIN inl, code \in StorageErrors : InlineURLFail(k, code)

\* deletion, and the other clients of the collection
StoreNext ==
    \/ \E i \in DOMAIN posts, ok \in BOOLEAN : DeleteRequest(i, ok)
    \/ \E k \in DOMAIN dels : DeleteAck(k)
    \/ \E k \in DOMAIN dels, code \in FirestoreErrors : DeleteReject(k, code)
    \/ \E a \in Users \cup OtherAuthors, t \in 1..(clock + 1) : RemoteInsert(a, t)
    \/ \E id \in Ids(serverDocs) : RemoteDelete(id)

\* the composer: the view over an empty collection that only this client writes
Next == ViewNext \/ WriteNext \/ UploadNext
Spec == InitOver({{}}) /\ [][Next]_vars

\* the feed: the view over a collection that other clients write too and
\* that this client deletes from
FeedNext == ViewNext \/ WriteNext \/ StoreNext
FeedSpec == InitOver(InitialCollections) /\ [][FeedNext]_vars

\* the feed over a collection that starts empty, with its scheduling: the
\* SDK calls the listener of an active query whenever the query's result has
\* changed; nothing is assumed of the user, the other clients or the
\* backend's answers
LiveFeedSpec == InitOver({{}}) /\ [][FeedNext]_vars /\ WF_vars(FeedDeliver)

(* ------------------------------- claims ------------------------------- *)

\* the title has a character that is not white space
HasText(t) == \E i \in DOMAIN t : t[i] # " "

\* the step is a submit gesture
SubmitGesture == Len(subs') = Len(subs) + 1

\* the last write this client issued, as the local view holds it
LastAdd == pendingAdds'[Len(pendingAdds')]

\* C1: a submission with an identity, a title that is not blank, a content
\* that is neither '' nor the empty document, and no cover file issues exactly
\* one addDoc call, in the gesture's own step and never again; the record
\* carries the trimmed title, the content as typed and an empty imageUrl.
C1_NoCoverOneRecord ==
    [][/\ ( /\ SubmitGesture
            /\ ~isSubmitting /\ user # NULL /\ featuredImage = NULL
            /\ HasText(title) /\ content \notin {<<>>, EmptyDoc} )
          => /\ subs'[Len(subs')].pc = "adding"
             /\ subs'[Len(subs')].adds = 1
             /\ subs'[Len(subs')].uploads = 0
             /\ Len(pendingAdds') = Len(pendingAdds) + 1
             /\ LastAdd.title = Trim(title)
             /\ LastAdd.title # <<>>
             /\ IsSpace(Head(LastAdd.title)) = FALSE
             /\ LastAdd.content = content
             /\ LastAdd.imageUrl = ""
       /\ \A s \in DOMAIN subs :
             subs[s].file = NULL => /\ subs'[s].adds = subs[s].adds
                                    /\ subs'[s].uploads = 0
      ]_vars

C1_Witness ==
    \E s \in DOMAIN subs :
        /\ subs[s].pc = "created" /\ subs[s].file = NULL /\ subs[s].adds = 1
        /\ \E d \in serverDocs : d.id = subs[s].docId /\ d.imageUrl = "" /\ d.title = <<"a">>

\* C2: when the cover upload of a submission fails, that submission issues
\* no addDoc call, and the failing step leaves the collection and this
\* client's pending writes as they were.
C2_FailedCoverNoRecord ==
    [][\A s \in DOMAIN subs :
          /\ (subs[s].err \notin StorageErrors /\ subs'[s].err \in StorageErrors)
                => /\ subs[s].file # NULL
                   /\ subs'[s].adds = 0
                   /\ UNCHANGED <<serverDocs, pendingAdds, nextId>>
          /\ subs[s].err \in StorageErrors
                => /\ subs'[s].adds = 0
                   /\ subs'[s].err = subs[s].err
      ]_vars

C2_Witness ==
    \E s \in DOMAIN subs :
        /\ subs[s].pc = "failed" /\ subs[s].file # NULL
        /\ subs[s].err \in StorageErrors /\ subs[s].adds = 0

\* C3: a submit gesture over a blank title, or over a content that is '' or
\* the empty document, starts nothing: no upload, no addDoc, and isSubmitting,
\* the draft, the progress and the access message stay as they are.
C3_InvalidDraftNoOp ==
    [][( /\ SubmitGesture
         /\ ~HasText(title) \/ content \in {<<>>, EmptyDoc} )
          => /\ subs'[Len(subs')] = NoSubmission
             /\ UNCHANGED <<isSubmitting, title, content, featuredImage, imagePreview,
                            uploadProgress, permissionError, storeVars, user, posts>>
      ]_vars

C3_Witness ==
    /\ phase = "mounted" /\ ~isSubmitting /\ user # NULL
    /\ subs # <<>> /\ \A s \in DOMAIN subs : subs[s] = NoSubmission
    /\ title = <<" ">> /\ content = <<"<p>", "H", "</p>">>
    /\ nextId = 0

InFlightSet(ss) == {s \in DOMAIN ss : ss[s].pc \in {"uploading", "gettingURL", "adding", "hung"}}

\* C4: at most one submission is in flight; a submit gesture made while
\* isSubmitting starts nothing (no upload, no addDoc), and a gesture that
\* started nothing never starts anything later.
C4_OneSubmissionInFlight ==
    [][/\ Cardinality(InFlightSet(subs')) <= 1
       /\ (SubmitGesture /\ isSubmitting)
             => /\ subs'[Len(subs')] = NoSubmission
                /\ UNCHANGED <<isSubmitting, storeVars>>
       /\ \A s \in DOMAIN subs : subs[s] = NoSubmission => subs'[s] = NoSubmission
      ]_vars

C4_Witness ==
    \E s, r \in DOMAIN subs :
        /\ s < r /\ s \in InFlightSet(subs) /\ subs[r] = NoSubmission
        /\ isSubmitting /\ HasText(title) /\ content \notin {<<>>, EmptyDoc} /\ user # NULL

\* C5: a submission with a cover file issues no addDoc call while its upload
\* is unresolved; it issues one in the step in which getDownloadURL resolves,
\* after the transfer is complete, and the record's imageUrl is that URL.
C5_CoverUrlInRecord ==
    [][/\ (SubmitGesture /\ subs'[Len(subs')].file # NULL)
             => subs'[Len(subs')].adds = 0 /\ UNCHANGED pendingAdds
       /\ \A s \in DOMAIN subs :
             (subs[s].file # NULL /\ subs'[s].adds # subs[s].adds)
                => /\ subs[s].pc = "gettingURL"
                   /\ subs[s].bt = TotalBytes(subs[s].file)
                   /\ subs[s].adds = 0 /\ subs'[s].adds = 1
                   /\ Len(pendingAdds') = Len(pendingAdds) + 1
                   /\ LastAdd.id = subs'[s].docId
                   /\ LastAdd.imageUrl = DownloadURL(StoragePath(subs[s].user, subs[s].file))
                   /\ LastAdd.imageUrl # ""
      ]_vars

C5_Witness ==
    \E s \in DOMAIN subs :
        /\ subs[s].pc = "created" /\ subs[s].file # NULL /\ subs[s].adds = 1
        /\ \E d \in serverDocs :
              d.id = subs[s].docId /\ d.imageUrl = "https://storage/posts/u1/pic.png"

\* C6: a mounted view that is submitting has a backend call of the submission
\* outstanding (the transfer, the URL fetch or the record write), whose
\* answer returns it to idle; it is never left submitting with nothing to
\* wait for.
C6_SubmittingAwaitsBackend ==
    (phase = "mounted" /\ isSubmitting)
        => \E s \in DOMAIN subs : subs[s].pc \in {"uploading", "gettingURL", "adding"}

\* C7: once the view has unmounted, its standing query is released and no
\* delivery reaches it whatever other clients and the server do: the
\* snapshot does not change and no step consumes a pending notification (a
\* delivery is the only step that clears feedDirty).
C7_NoDeliveryAfterUnsubscribe ==
    [][/\ phase' = "unmounted" => queries' = {}
       /\ phase = "unmounted" => /\ posts' = posts
                                 /\ feedDirty => feedDirty'
      ]_vars

C7_Witness ==
    /\ phase = "unmounted" /\ unsubscribeCount = 1 /\ queries = {}
    /\ feedDirty /\ remotes > 0 /\ serverDocs = {}

\* C8: the standing query is established by the first run of the effect and
\* by nothing else, whatever the view renders afterwards; at most one is
\* active at a time, and unmounting releases it once.
C8_OneStandingQuery ==
    /\ Cardinality(queries) <= 1
    /\ queries \subseteq {handle}
    /\ phase = "init" => subscribeCount = 0 /\ unsubscribeCount = 0
    /\ phase = "mounted" => subscribeCount = 1 /\ unsubscribeCount = 0
    /\ phase = "unmounted" => subscribeCount = 1 /\ unsubscribeCount = 1 /\ queries = {}

C8_Witness ==
    /\ phase = "mounted" /\ subscribeCount = 1 /\ queries = {1}
    /\ user = NULL /\ uploadProgress > 0 /\ posts # <<>>
    /\ \E s \in DOMAIN subs : subs[s].pc = "created"

\* the sequence is ordered by createdAt descending, the entries without a
\* timestamp before every entry with one
NullsFirstDescending(q) ==
    \A i, j \in DOMAIN q :
        i < j => /\ q[j].createdAt = <<>> => q[i].createdAt = <<>>
                 /\ (q[i].createdAt # <<>> /\ q[j].createdAt # <<>>)
                       => q[i].createdAt[1] >= q[j].createdAt[1]

\* C9: the snapshot the view holds is always ordered by createdAt descending
\* with the uncommitted entries first, and a delivery replaces it by the
\* whole current result of the query: one entry per visible document.
C9_SnapshotSortedNullsFirst ==
    [][/\ NullsFirstDescending(posts')
       /\ (posts' # posts /\ phase' = "mounted")
             => /\ Range(posts') = LocalView
                /\ Len(posts') = Cardinality(LocalView)
      ]_vars

C9_Witness ==
    /\ Len(posts) = 3
    /\ posts[1].createdAt = <<>>
    /\ posts[2].createdAt # <<>> /\ posts[3].createdAt # <<>>
    /\ posts[2].createdAt[1] > posts[3].createdAt[1]

\* C10: the server's accepting a delete removes the document of that id from
\* the collection and no other; from then on the id is in no delivered
\* snapshot, and a delivery holds every document the collection has that
\* this client is not deleting.
C10_DeleteRemovesExactlyThatId ==
    [][\A k \in DOMAIN dels :
          /\ (dels[k].pc = "pending" /\ dels'[k].pc = "accepted")
                => serverDocs' = {d \in serverDocs : d.id # dels[k].id}
          /\ dels'[k].pc = "accepted"
                => /\ dels'[k].id \notin Ids(serverDocs')
                   /\ posts' # posts => dels'[k].id \notin Ids(Range(posts'))
          /\ (posts' # posts /\ phase' = "mounted")
                => {d \in serverDocs : d.id \notin PendingDeletes} \subseteq Range(posts')
      ]_vars

C10_Witness ==
    \E k \in DOMAIN dels :
        /\ dels[k].pc = "accepted" /\ phase = "mounted" /\ ~feedDirty
        /\ Len(posts) = 1 /\ posts[1].id # dels[k].id
        /\ posts[1].authorId = "u1"

\* the step is the listener's error callback receiving code
FeedFails(code) == feedFailure = NULL /\ feedFailure' = code

\* C11: when the standing query fails with permission-denied the view shows
\* the read-denied message; the failure does not touch the snapshot, and
\* while the view lives no later change of the collection does either.
C11_ReadDeniedShownFeedFrozen ==
    [][/\ FeedFails("permission-denied")
             => /\ permissionError' = ReadDenied
                /\ permissionError' \notin {NULL, WriteDenied}
                /\ queries' = {}
       /\ feedFailure' # NULL => posts' = posts
      ]_vars

C11_Witness ==
    /\ feedFailure = "permission-denied" /\ permissionError = ReadDenied
    /\ phase = "mounted" /\ feedDirty /\ remotes > 0
    /\ Len(posts) < Cardinality(serverDocs)

\* C12: every failure of the standing query, whatever its code, leaves a
\* message for the user on the view and ends the deliveries.
C12_ChannelFailureReported ==
    [][\A code \in FirestoreErrors :
          FeedFails(code) => /\ permissionError' # NULL
                             /\ queries' = {}
      ]_vars

\* the uploadImage calls made so far: by submissions and by the editor
UploadCalls ==
    {subs[s] : s \in {j \in DOMAIN subs : subs[j].uploads > 0}}
        \cup {inl[k] : k \in DOMAIN inl}

\* C13: a call of uploadImage whose backend calls have all returned has
\* settled, resolved or rejected with the error it received; it is never left
\* with an answered getDownloadURL and an unsettled promise, and it starts at
\* most one transfer.
C13_UploadSettlesOnce ==
    \A u \in UploadCalls :
        /\ u.uploads <= 1
        /\ u.pc \in {"uploading", "gettingURL"} => u.err = NULL
        /\ u.pc # "hung"

\* C14: uploadImage called with no user rejects at once with "No user
\* authenticated" and creates no upload task: the call never has a transfer,
\* a byte count or a getDownloadURL call, and a transfer in progress always
\* belongs to a user.
C14_NoUserNoTransfer ==
    [][/\ (Len(inl') = Len(inl) + 1 /\ user = NULL)
             => /\ inl'[Len(inl')].pc = "failed"
                /\ inl'[Len(inl')].err = NoUserError
                /\ inl'[Len(inl')].uploads = 0
                /\ UNCHANGED uploadProgress
       /\ \A u \in UploadCalls :
             /\ u.err = NoUserError => u.uploads = 0 /\ u.pc = "failed" /\ u.bt = 0
             /\ u.pc \in {"uploading", "gettingURL"} => u.user # NULL /\ u.uploads = 1
      ]_vars

C14_Witness ==
    \E k \in DOMAIN inl :
        /\ inl[k].err = NoUserError /\ inl[k].pc = "failed" /\ inl[k].uploads = 0
        /\ inl[k].alert = InlineFailed /\ user = NULL /\ uploadProgress = 0

\* the uploadImage calls whose transfer or URL fetch is outstanding
Transferring(ss, ii) ==
    {<<"cover", s>> : s \in {j \in DOMAIN ss : ss[j].pc \in {"uploading", "gettingURL"}}}
        \cup {<<"inline", k>> : k \in {j \in DOMAIN ii : ii[j].pc \in {"uploading", "gettingURL"}}}

\* C15: while an upload is in progress, from its start until it resolves or
\* fails, no step of the mounted view lowers uploadProgress, whichever
\* upload's events arrive and in whatever order.
C15_ProgressNeverDecreases ==
    [][(phase' = "mounted" /\ Transferring(subs, inl) \cap Transferring(subs', inl') # {})
          => uploadProgress' >= uploadProgress
      ]_vars

\* C16: the message handleDeletePost shows for a delete the backend refused
\* as not permitted differs from the message it shows for a delete that
\* failed for another reason.
C16_DeleteDeniedMessageDistinct ==
    \A j, k \in DOMAIN dels :
        (dels[j].err = "permission-denied" /\ dels[k].err \notin {NULL, "permission-denied"})
            => /\ dels[j].alert # NULL
               /\ dels[k].alert # NULL
               /\ dels[j].alert # dels[k].alert

\* the step is a click on a delete button
DeleteGesture == Len(dels') = Len(dels) + 1

\* C17: a click on delete the user declines issues no deleteDoc and changes
\* nothing of the view or the store; a click the user confirms issues one
\* deleteDoc, for the id of a post the view shows, and no later step issues
\* another for that request, whatever the backend answers.
C17_DeleteOnlyAfterConfirm ==
    [][/\ DeleteGesture
             => LET d == dels'[Len(dels')]
                IN  /\ d.pc = IF d.ok THEN "pending" ELSE "declined"
                    /\ ~d.ok
                          => /\ d.calls = 0
                             /\ d.id \notin PendingDeletes' \ PendingDeletes
                             /\ UNCHANGED <<phase, uiVars, feedVars, feedDirty, storeVars>>
                    /\ d.ok
                          => /\ d.calls = 1
                             /\ d.id \in Ids(Range(posts))
                             /\ UNCHANGED <<serverDocs, uiVars>>
       /\ \A k \in DOMAIN dels :
             /\ dels'[k].calls = dels[k].calls
             /\ dels'[k].id = dels[k].id
             /\ ~dels[k].ok => dels'[k] = dels[k]
      ]_vars

C17_Witness ==
    \E j, k \in DOMAIN dels :
        /\ ~dels[j].ok /\ dels[j].pc = "declined" /\ dels[j].calls = 0
        /\ dels[k].ok /\ dels[k].pc = "rejected" /\ dels[k].calls = 1
        /\ dels[k].id \in Ids(serverDocs)

\* the images embedded in a content
Embeds(c) == {i \in DOMAIN EditorDoc(c) : \E f \in Files, u \in Users :
                  EditorDoc(c)[i] = ImgTag(DownloadURL(StoragePath(u, f)))}

\* editor upload k fails in this step: at the pick, in the transfer or in
\* the URL fetch
InlineFails(k) ==
    /\ k \in DOMAIN inl'
    /\ inl'[k].err # NULL
    /\ k \in DOMAIN inl => inl[k].err = NULL

\* editor upload k succeeds in this step, the editor being there
InlineSucceeds(k) ==
    /\ k \in DOMAIN inl
    /\ inl[k].pc = "gettingURL"
    /\ inl'[k].pc = "embedded"

\* C18: a failed editor upload leaves the content as it is, issues no addDoc,
\* leaves isSubmitting as it is and alerts the user; a successful one inserts
\* one image with the returned URL at a position of the document, position 0
\* when the content is empty.
C18_InlineFailureLeavesEditor ==
    [][\A k \in DOMAIN inl' :
          /\ InlineFails(k)
                => /\ UNCHANGED <<content, isSubmitting, pendingAdds, serverDocs, nextId>>
                   /\ inl'[k].alert = InlineFailed
          /\ InlineSucceeds(k)
                => LET doc == EditorDoc(content)
                       new == EditorDoc(content')
                       url == DownloadURL(StoragePath(inl[k].user, inl[k].file))
                   IN  /\ Len(new) = Len(doc) + 1
                       /\ Cardinality(Embeds(content')) = Cardinality(Embeds(content)) + 1
                       /\ \E p \in 1..Len(new) :
                             /\ new[p] = ImgTag(url)
                             /\ SubSeq(new, 1, p - 1) \o SubSeq(new, p + 1, Len(new)) = doc
                       /\ UNCHANGED <<isSubmitting, pendingAdds, serverDocs, nextId>>
      ]_vars

\* submission s has been written by the server
Created(s) == s \in DOMAIN subs /\ subs[s].pc = "created"

\* the snapshot the view holds has the record of submission s
Shown(s) == s \in DOMAIN subs /\ subs[s].docId \in Ids(Range(posts))

\* the listener lives and the record of submission s is in its result
Listening(s) ==
    /\ s \in DOMAIN subs
    /\ phase = "mounted"
    /\ feedFailure = NULL
    /\ subs[s].docId \in Ids(LocalView)

\* C19: while the view is mounted and its query has not failed, the record of
\* a submission the server has written comes to be in the snapshot by the
\* listener's deliveries alone, unless it is deleted first; a record enters
\* the snapshot either at the head with a null createdAt or with the
\* server's timestamp.
C19_CreatedRecordAppears ==
    /\ \A s \in 1..MaxOps : Created(s) ~> (Shown(s) \/ ~Listening(s))
    /\ [][\A s \in DOMAIN subs :
             \A i \in DOMAIN posts' :
                (posts'[i].id = subs[s].docId /\ ~Shown(s))
                    => \/ i = 1 /\ posts'[i].createdAt = <<>> /\ subs'[s].pc = "adding"
                       \/ posts'[i].createdAt # <<>> /\ subs'[s].pc = "created"
         ]_vars

C19_Witness ==
    \E s \in DOMAIN subs :
        /\ Created(s) /\ Listening(s) /\ ~feedDirty
        /\ Len(posts) = 2 /\ posts[1].id = subs[s].docId
        /\ posts[1].createdAt # <<>> /\ posts[1].imageUrl = ""

\* submission s ends in this step with outcome pc
Ends(s, pc) == subs[s].pc # pc /\ subs'[s].pc = pc

C21_IdleProgressZero ==
    (phase = "mounted" /\ Transferring(subs, inl) = {}) => uploadProgress = 0

=============================================================================
